---- MODULE Spec2Model ----
(***************************************************************************)
(* The QEMU fw_cfg linker/loader interpreter of OvmfPkg (AcpiPlatformDxe)  *)
(* as a state machine: the pre-pass that collects the blobs restricted to  *)
(* 32-bit allocation, the ALLOCATE command with the header sterilization   *)
(* it applies, the ADD_POINTER and ADD_CHECKSUM commands and the loop that *)
(* drives them.  Memory is kept as runs of equal bytes; addresses are kept  *)
(* as page frame numbers and as 8-byte little-endian fields, so that 64-bit *)
(* values never have to fit a model integer.                               *)
(***************************************************************************)
EXTENDS Integers, Sequences, FiniteSets, TLC

VARIABLES
  script,        \* the linker/loader script (sequence of QEMU_LOADER_ENTRY)
  pc,            \* position of the pass: start, run, rollback, install, done, failed
  idx,           \* index of the next command to process
  status,        \* EFI_STATUS returned by the last step
  restricted,    \* AllocationsRestrictedTo32Bit (ordered collection of names)
  tracker,       \* Tracker (ordered collection of BLOB user structures)
  reservations,  \* AcpiNVS page ranges held: base frame -> memory of the range
  freeMem,       \* free frames that were stored into: frame -> memory of the frame
  build,         \* the declaration of Header->OemTableId the driver was built with
  fwcfg,         \* what the fw_cfg host served: name -> bytes read so far
  reserveLog,    \* calls the last step made to gBS->AllocatePages and gBS->FreePages
  installed,     \* blobs handed to the table-installation service
  TableAddress,  \* the SMBIOS tables given to InstallAllStructures, and what follows them
  generated,     \* what GenerateFakeSmbiosTables did: total size, final cursor, overrun
  smbiosPc,      \* position of the SMBIOS driver: idle, entry, install, walk, type0, returned, fault
  SmbiosTable,   \* SmbiosTable.Raw as an offset from TableAddress
  NeedSmbiosType0,
  smbiosStatus,  \* EFI_STATUS returned by InstallAllStructures
  added,         \* the calls made to Smbios->Add, in order
  maxRead        \* the highest offset from TableAddress read so far (-1: none)

loaderVars == <<script, pc, idx, status, restricted, tracker, reservations, freeMem,
                build, fwcfg, reserveLog, installed>>

smbiosVars == <<TableAddress, generated, smbiosPc, SmbiosTable, NeedSmbiosType0,
                smbiosStatus, added, maxRead>>

vars == <<loaderVars, smbiosVars>>

-----------------------------------------------------------------------------
(* Bounds of the model *)

\* Longest script of commands that fail early or only feed the pre-pass.
MaxScript == 3
\* Longest script of allocations.
MaxBlobs == 2
\* Most patch commands after the allocations of a patch script.
MaxPatches == 1
\* Free page frames below and above the 4 GiB boundary.
LowFrames == 2
HighFrames == 1

(* Program constants *)

QEMU_LOADER_FNAME_SIZE == 56
EFI_PAGE_SIZE == 4096
AcpiHeaderSize == 36

Byte == 0 .. 255

EFI_SUCCESS == "EFI_SUCCESS"
EFI_PROTOCOL_ERROR == "EFI_PROTOCOL_ERROR"
EFI_UNSUPPORTED == "EFI_UNSUPPORTED"
EFI_NOT_FOUND == "EFI_NOT_FOUND"
EFI_OUT_OF_RESOURCES == "EFI_OUT_OF_RESOURCES"
EFI_INVALID_PARAMETER == "EFI_INVALID_PARAMETER"

NULL == <<>>

QemuLoaderCmdAllocate == "QemuLoaderCmdAllocate"
QemuLoaderCmdAddPointer == "QemuLoaderCmdAddPointer"
QemuLoaderCmdAddChecksum == "QemuLoaderCmdAddChecksum"
QemuLoaderCmdWritePointer == "QemuLoaderCmdWritePointer"

EFI_ERROR(s) == s # EFI_SUCCESS

-----------------------------------------------------------------------------
(* File names: fixed-width byte buffers holding a NUL-terminated string *)

Pad(s) == [i \in 1 .. QEMU_LOADER_FNAME_SIZE |-> IF i <= Len(s) THEN s[i] ELSE 0]

\* The string a buffer holds: the bytes before its first NUL.
AsciiStrLen(b) ==
  IF \E i \in 1 .. Len(b) : b[i] = 0
    THEN (CHOOSE i \in 1 .. Len(b) : b[i] = 0 /\ \A j \in 1 .. (i - 1) : b[j] # 0) - 1
    ELSE Len(b)

AsciiStr(b) == SubSeq(b, 1, AsciiStrLen(b))

\* The value of a byte read as a CHAR8, which is a signed char on the IA32 and
\* X64 builds of OVMF.
SignedChar(byte) == IF byte >= 128 THEN byte - 256 ELSE byte

RECURSIVE AsciiStrCmpFrom(_, _, _)
AsciiStrCmpFrom(a, b, i) ==
  IF a[i] # 0 /\ a[i] = b[i] THEN AsciiStrCmpFrom(a, b, i + 1)
  ELSE SignedChar(a[i]) - SignedChar(b[i])

AsciiStrCmp(a, b) == AsciiStrCmpFrom(a, b, 1)

AsciiStringCompare(a, b) == AsciiStrCmp(a, b)

\* A key comparison over the whole buffers, bytes after the NUL included.
BlobKeyCompareBuffers(key, blob) ==
  IF key = blob.File THEN 0
  ELSE IF AsciiStrCmp(key, blob.File) # 0 THEN AsciiStrCmp(key, blob.File)
  ELSE 1

BlobKeyCompare(key, blob) == AsciiStrCmp(key, blob.File)

BlobCompare(blob1, blob2) == BlobKeyCompare(blob1.File, blob2)

NameTerminated(b) == b[QEMU_LOADER_FNAME_SIZE] = 0

-----------------------------------------------------------------------------
(* Ordered collections, kept as sequences sorted by their comparator *)

\* OrderedCollectionFind on the collection of restricted names.
RestrictedFind(coll, key) ==
  \E i \in 1 .. Len(coll) : AsciiStringCompare(key, coll[i]) = 0

\* OrderedCollectionInsert on the collection of restricted names (no duplicate).
RestrictedInsert(coll, name) ==
  LET n == Cardinality({i \in 1 .. Len(coll) : AsciiStringCompare(coll[i], name) < 0})
  IN  SubSeq(coll, 1, n) \o <<name>> \o SubSeq(coll, n + 1, Len(coll))

\* OrderedCollectionFind on Tracker.
TrackerFind(coll, key) ==
  {i \in 1 .. Len(coll) : BlobKeyCompare(key, coll[i]) = 0}

\* OrderedCollectionInsert on Tracker (no duplicate).
TrackerInsert(coll, blob) ==
  LET n == Cardinality({i \in 1 .. Len(coll) : BlobCompare(coll[i], blob) < 0})
  IN  SubSeq(coll, 1, n) \o <<blob>> \o SubSeq(coll, n + 1, Len(coll))

-----------------------------------------------------------------------------
(* The restricted-address pre-pass *)

\* The loop without the check of the pointee name.
RECURSIVE CollectLoopNoNameCheck(_, _, _, _)
CollectLoopNoNameCheck(s, i, coll, oomAt) ==
  IF i > Len(s) THEN [Status |-> EFI_SUCCESS, Collection |-> coll]
  ELSE IF s[i].Type # QemuLoaderCmdAddPointer
    THEN CollectLoopNoNameCheck(s, i + 1, coll, oomAt)
  ELSE IF s[i].PointerSize >= 8 THEN CollectLoopNoNameCheck(s, i + 1, coll, oomAt)
  ELSE IF RestrictedFind(coll, s[i].PointeeFile)
    THEN CollectLoopNoNameCheck(s, i + 1, coll, oomAt)
  ELSE IF i = oomAt
    THEN [Status |-> EFI_OUT_OF_RESOURCES, Collection |-> <<>>]
  ELSE CollectLoopNoNameCheck(s, i + 1, RestrictedInsert(coll, s[i].PointeeFile), oomAt)

\* The loop taking 8-byte pointers for narrow ones.
RECURSIVE CollectLoopWide(_, _, _, _)
CollectLoopWide(s, i, coll, oomAt) ==
  IF i > Len(s) THEN [Status |-> EFI_SUCCESS, Collection |-> coll]
  ELSE IF s[i].Type # QemuLoaderCmdAddPointer THEN CollectLoopWide(s, i + 1, coll, oomAt)
  ELSE IF s[i].PointerSize > 8 THEN CollectLoopWide(s, i + 1, coll, oomAt)
  ELSE IF ~NameTerminated(s[i].PointeeFile)
    THEN [Status |-> EFI_PROTOCOL_ERROR, Collection |-> <<>>]
  ELSE IF RestrictedFind(coll, s[i].PointeeFile)
    THEN CollectLoopWide(s, i + 1, coll, oomAt)
  ELSE IF i = oomAt
    THEN [Status |-> EFI_OUT_OF_RESOURCES, Collection |-> <<>>]
  ELSE CollectLoopWide(s, i + 1, RestrictedInsert(coll, s[i].PointeeFile), oomAt)

\* The loop of CollectAllocationsRestrictedTo32Bit from entry i on; oomAt is
\* the entry at which OrderedCollectionInsert runs out of memory (0: never).
RECURSIVE CollectLoop(_, _, _, _)
CollectLoop(s, i, coll, oomAt) ==
  IF i > Len(s) THEN [Status |-> EFI_SUCCESS, Collection |-> coll]
  ELSE IF s[i].Type # QemuLoaderCmdAddPointer THEN CollectLoop(s, i + 1, coll, oomAt)
  ELSE IF s[i].PointerSize >= 8 THEN CollectLoop(s, i + 1, coll, oomAt)
  ELSE IF ~NameTerminated(s[i].PointeeFile)
    THEN [Status |-> EFI_PROTOCOL_ERROR, Collection |-> <<>>]
  ELSE IF RestrictedFind(coll, s[i].PointeeFile)
    THEN CollectLoop(s, i + 1, coll, oomAt)          \* EFI_ALREADY_STARTED
  ELSE IF i = oomAt
    THEN [Status |-> EFI_OUT_OF_RESOURCES, Collection |-> <<>>]
  ELSE CollectLoop(s, i + 1, RestrictedInsert(coll, s[i].PointeeFile), oomAt)

\* initFails: OrderedCollectionInit returned NULL.
CollectAllocationsRestrictedTo32Bit(s, initFails, oomAt) ==
  IF initFails THEN [Status |-> EFI_OUT_OF_RESOURCES, Collection |-> <<>>]
  ELSE CollectLoop(s, 1, <<>>, oomAt)

-----------------------------------------------------------------------------
(* Little-endian fields and addresses *)

\* n (a model integer) as a w-byte little-endian field.
RECURSIVE ToLE(_, _)
ToLE(n, w) == IF w = 0 THEN <<>> ELSE <<n % 256>> \o ToLE(n \div 256, w - 1)

\* a + b over w-byte little-endian fields: the w low bytes, and the carry out.
RECURSIVE AddLEFrom(_, _, _, _)
AddLEFrom(a, b, i, carry) ==
  IF i > Len(a) THEN [Sum |-> <<>>, Carry |-> carry]
  ELSE LET t == a[i] + b[i] + carry
           r == AddLEFrom(a, b, i + 1, t \div 256)
       IN  [Sum |-> <<t % 256>> \o r.Sum, Carry |-> r.Carry]

AddLE(a, b) == AddLEFrom(a, b, 1, 0)

\* a <= b over little-endian fields of one width.
RECURSIVE LeqLEFrom(_, _, _)
LeqLEFrom(a, b, i) ==
  IF i = 0 THEN TRUE
  ELSE IF a[i] # b[i] THEN a[i] < b[i]
  ELSE LeqLEFrom(a, b, i - 1)

LeqLE(a, b) == LeqLEFrom(a, b, Len(a))

\* Zero-extension of a field to 8 bytes.
ZeroExtend(f) == [i \in 1 .. 8 |-> IF i <= Len(f) THEN f[i] ELSE 0]

MAX_UINT64 == [i \in 1 .. 8 |-> 255]
MAX_UINT32 == [i \in 1 .. 8 |-> IF i <= 4 THEN 255 ELSE 0]

\* Page frames: the first frame at the 4 GiB boundary, and the free AcpiNVS
\* candidate frames of the platform, which straddle it.
Pfn4G == 2 ^ 20
FreeMemory == (Pfn4G - LowFrames) .. (Pfn4G + HighFrames - 1)

\* The physical address of a page frame, as an 8-byte little-endian field.
FrameAddress(pfn) == <<0>> \o ToLE(pfn * 16, 7)

EFI_SIZE_TO_PAGES(size) ==
  (size \div EFI_PAGE_SIZE) + (IF size % EFI_PAGE_SIZE # 0 THEN 1 ELSE 0)

EFI_PAGES_TO_SIZE(pages) == pages * EFI_PAGE_SIZE

\* Address of the last byte of a range of pages.
LastByteAddress(pfn, pages) ==
  AddLE(FrameAddress(pfn), ToLE(EFI_PAGES_TO_SIZE(pages) - 1, 8)).Sum

-----------------------------------------------------------------------------
(* Memory: a byte range is kept as its leading bytes (Bytes, offset 0 first) *)
(* followed by one value (Fill) repeated up to Length bytes.                *)

\* Memory is held as runs: <<value, count>> stands for count bytes of one
\* value; neighbouring runs differ in value and no run is empty.
Run(value, n) == IF n = 0 THEN <<>> ELSE << <<value, n>> >>

\* a followed by b.
Join(a, b) ==
  IF a = <<>> THEN b
  ELSE IF b = <<>> THEN a
  ELSE IF a[Len(a)][1] = b[1][1]
    THEN SubSeq(a, 1, Len(a) - 1) \o << <<b[1][1], a[Len(a)][2] + b[1][2]>> >> \o Tail(b)
  ELSE a \o b

RECURSIVE MemLength(_)
MemLength(mem) == IF mem = <<>> THEN 0 ELSE mem[1][2] + MemLength(Tail(mem))

RECURSIVE FromBytes(_)
FromBytes(bytes) ==
  IF bytes = <<>> THEN <<>> ELSE Join(Run(bytes[1], 1), FromBytes(Tail(bytes)))

RECURSIVE ToBytes(_)
ToBytes(mem) ==
  IF mem = <<>> THEN <<>>
  ELSE IF mem[1][2] = 1 THEN <<mem[1][1]>> \o ToBytes(Tail(mem))
  ELSE <<mem[1][1]>> \o ToBytes(<< <<mem[1][1], mem[1][2] - 1>> >> \o Tail(mem))

\* The first n bytes of mem.
RECURSIVE Take(_, _)
Take(mem, n) ==
  IF n = 0 \/ mem = <<>> THEN <<>>
  ELSE IF mem[1][2] <= n THEN <<mem[1]>> \o Take(Tail(mem), n - mem[1][2])
  ELSE << <<mem[1][1], n>> >>

\* mem without its first n bytes.
RECURSIVE Drop(_, _)
Drop(mem, n) ==
  IF n = 0 \/ mem = <<>> THEN mem
  ELSE IF mem[1][2] <= n THEN Drop(Tail(mem), n - mem[1][2])
  ELSE << <<mem[1][1], mem[1][2] - n>> >> \o Tail(mem)

\* The bytes of mem at offsets [off, off + len).
Slice(mem, off, len) == Take(Drop(mem, off), len)

\* A range of memory nobody has written yet: length bytes of whatever was there.
FreshPages(length, g) == Run(g, length)

\* The byte at an offset below the length of mem.
ByteAt(mem, off) == Drop(mem, off)[1][1]

\* src written at offsets [off, off + MemLength(src)), the other bytes kept.
Overwrite(mem, off, src) ==
  Join(Join(Take(mem, off), src), Drop(mem, off + MemLength(src)))

CopyMem(mem, off, bytes) == Overwrite(mem, off, FromBytes(bytes))

SetMem(mem, off, len, value) == Overwrite(mem, off, Run(value, len))

ZeroMem(mem, off, len) == SetMem(mem, off, len, 0)

ReadField(mem, off, len) == ToBytes(Slice(mem, off, len))

\* Sum modulo 256 of the bytes of mem.
RECURSIVE SumBytes(_)
SumBytes(mem) ==
  IF mem = <<>> THEN 0 ELSE (mem[1][1] * mem[1][2] + SumBytes(Tail(mem))) % 256

\* CalculateSum8: sum modulo 256 of the bytes at offsets [off, off + len).
CalculateSum8(mem, off, len) == SumBytes(Slice(mem, off, len))

CalculateCheckSum8(mem, off, len) == (256 - CalculateSum8(mem, off, len)) % 256

\* Every byte at offsets [off, off + len) has the value.
RangeIs(mem, off, len, value) == Slice(mem, off, len) = Run(value, len)

-----------------------------------------------------------------------------
(* The fw_cfg host: the files it exports and the bytes it may serve *)

NameA == <<65>>
NameB == <<66>>
NameC == <<67>>
NameD == <<68>>
NameE == <<69>>

\* QemuFwCfgFindFile: the size of each exported file ("C" is not exported).
FwCfgFiles ==
  (NameA :> 48) @@ (NameB :> EFI_PAGE_SIZE + 1) @@ (NameD :> EFI_PAGE_SIZE) @@ (NameE :> 3)

\* An ACPI table as QEMU builds it: the description header, then the body.
AcpiTable(length, checksum, body) ==
  Join(FromBytes(<<70, 65, 67, 80>> \o length \o <<1, checksum>>
                   \o <<66, 79, 67, 72, 83, 32>> \o <<66, 88, 80, 67, 32, 32, 32, 32>>
                   \o <<1, 0, 0, 0>> \o <<66, 88, 80, 67>> \o <<1, 0, 0, 0>>),
       body)

\* A body of zeros that ends in one byte of its own.
Filler(len, last) == Join(Run(0, len - 1), Run(last, 1))

\* The contents the host may serve for a file (read by QemuFwCfgReadBytes).
FwCfgContents(name) ==
  IF name = NameA THEN
    { AcpiTable(ToLE(48, 4), 0, Filler(12, 0)),
      \* a table whose table id is the address of offset 16, the table id
      \* field itself, of the last frame below 4 GiB
      Overwrite(AcpiTable(ToLE(10, 4), 77,
                          Join(FromBytes(<<4, 0, 0, 0, 0, 0, 0, 0>>), Filler(4, 90))),
                16, FromBytes(<<16>> \o SubSeq(FrameAddress(Pfn4G - 1), 2, 8))),
      \* the same with offset 9: 8 bytes that end on the first byte of the
      \* table id field
      Overwrite(AcpiTable(ToLE(EFI_PAGE_SIZE, 4), 0, Join(Run(255, 8), Filler(4, 90))),
                16, FromBytes(<<9>> \o SubSeq(FrameAddress(Pfn4G - 1), 2, 8))),
      \* a table one byte longer than its page, whose table id is the address
      \* of that frame: what is stored there is read back into the checksum
      \* of a table in the frame before
      Overwrite(AcpiTable(ToLE(EFI_PAGE_SIZE + 1, 4), 0, Filler(12, 90)), 16,
                FromBytes(FrameAddress(Pfn4G - 1))),
      \* not an ACPI table: "QEMU", then zeros and one last byte
      Join(FromBytes(<<81, 69, 77, 85>>), Filler(44, 90)),
      \* a table whose table id is the address of offset 40, in the body of
      \* the table, of the last frame below 4 GiB
      Overwrite(AcpiTable(ToLE(48, 4), 0, Filler(12, 90)), 16,
                FromBytes(<<40>> \o SubSeq(FrameAddress(Pfn4G - 1), 2, 8))),
      \* a table whose table id is the address 3 bytes below that frame: 8
      \* bytes that end on the first byte of the length field of a table in it
      Overwrite(AcpiTable(ToLE(48, 4), 0, Filler(12, 90)), 16,
                FromBytes(<<253, FrameAddress(Pfn4G - 2)[2] + 15>>
                            \o SubSeq(FrameAddress(Pfn4G - 2), 3, 8))) }
  ELSE IF name = NameB THEN
    { AcpiTable(ToLE(FwCfgFiles[NameB], 4), 0, Filler(FwCfgFiles[NameB] - AcpiHeaderSize, 90)) }
  ELSE IF name = NameD THEN
    { AcpiTable(ToLE(FwCfgFiles[NameD], 4), 0, Filler(FwCfgFiles[NameD] - AcpiHeaderSize, 90)) }
  ELSE { FromBytes(<<1, 2, 3>>) }

\* What freshly reserved pages may hold before they are written.
Garbage == {0, 170}

-----------------------------------------------------------------------------
(* The ACPI description header *)

STEALTH_ACPI_OEM_ID == <<68, 69, 76, 76, 32, 32>>
STEALTH_ACPI_OEM_TABLE_ID == <<82, 55, 52, 48, 32, 32, 32, 32>>
STEALTH_ACPI_CREATOR_ID == <<65, 77, 73, 32>>
STEALTH_ACPI_OEM_REVISION == <<9, 32, 7, 1>>

\* Header->Length (offset 4, 32 bits) names a range inside the bytes of mem.
HeaderLengthInside(mem) ==
  LET l == ReadField(mem, 4, 4)
  IN  l[4] = 0 /\ l[1] + 256 * l[2] + 65536 * l[3] <= MemLength(mem)

HeaderLength(mem) ==
  LET l == ReadField(mem, 4, 4) IN l[1] + 256 * l[2] + 65536 * l[3]

-----------------------------------------------------------------------------
(* The platform page allocator *)

\* Frames held by the reservations.
Occupied(resv) ==
  UNION {b .. (b + MemLength(resv[b]) \div EFI_PAGE_SIZE - 1) : b \in DOMAIN resv}

PagesReserved(resv) == Cardinality(Occupied(resv))

\* gBS->AllocatePages(AllocateMaxAddress, EfiACPIMemoryNVS, pages, &ceiling):
\* the base frames it may return.
AllocatePages(resv, pages, ceiling) ==
  {b \in FreeMemory :
     /\ pages > 0
     /\ b .. (b + pages - 1) \subseteq FreeMemory \ Occupied(resv)
     /\ LeqLE(LastByteAddress(b, pages), ceiling)}

\* The reservations with a fresh range at base.
Reserve(resv, base, mem) == (base :> mem) @@ resv

\* gBS->FreePages(Address, NumPages).
FreePages(resv, base, pages) ==
  IF base \in DOMAIN resv /\ MemLength(resv[base]) = EFI_PAGES_TO_SIZE(pages)
    THEN [b \in DOMAIN resv \ {base} |-> resv[b]]
    ELSE resv

LogAllocate(file, pages, ceiling, base, st) ==
  [Op |-> "AllocatePages", File |-> file, Pages |-> pages, Ceiling |-> ceiling,
   Base |-> base, Status |-> st]

LogFree(base, pages) ==
  [Op |-> "FreePages", File |-> <<>>, Pages |-> pages, Ceiling |-> <<>>,
   Base |-> base, Status |-> EFI_SUCCESS]

-----------------------------------------------------------------------------
(* SterilizeAcpiTable *)

\* The RAM of the platform around the blobs: the frames the allocator hands
\* out. An access to any other frame faults.
Mapped(frame) == frame \in FreeMemory

\* The reservations that hold a frame (none, or one).
Holder(resv, frame) ==
  {b \in DOMAIN resv : b <= frame /\ frame < b + (MemLength(resv[b]) \div EFI_PAGE_SIZE)}

\* The contents of a free frame: what was stored there since the pass began,
\* around bytes of h where nothing was.
FreeFrame(free, frame, h) ==
  IF frame \in DOMAIN free THEN free[frame] ELSE FreshPages(EFI_PAGE_SIZE, h)

\* The pages gBS->AllocatePages returns at base, as they are before the blob
\* is read into them.
RECURSIVE PagesAt(_, _, _, _)
PagesAt(free, base, pages, g) ==
  IF pages = 0 THEN <<>>
  ELSE Join(FreeFrame(free, base, g), PagesAt(free, base + 1, pages - 1, g))

\* The bytes that can be read from the start of a frame on: reserved ranges
\* hold their contents, free frames hold what was stored in them around bytes
\* of h, and the bytes end where the mapped frames end.
RECURSIVE MemoryFrom(_, _, _, _)
MemoryFrom(resv, free, frame, h) ==
  IF ~Mapped(frame) THEN <<>>
  ELSE IF frame \in DOMAIN resv
    THEN Join(resv[frame],
              MemoryFrom(resv, free,
                         frame + (MemLength(resv[frame]) \div EFI_PAGE_SIZE), h))
  ELSE IF Holder(resv, frame) # {} THEN <<>>
  ELSE Join(FreeFrame(free, frame, h), MemoryFrom(resv, free, frame + 1, h))

\* An 8-byte value taken as an address: its frame and its offset in the frame.
AddressInRange(a) == a[6] = 0 /\ a[7] = 0 /\ a[8] = 0
AddressFrame(a) == (a[2] \div 16) + 16 * a[3] + 4096 * a[4] + 1048576 * a[5]
AddressOffset(a) == a[1] + 256 * (a[2] % 16)

\* The len bytes at the address can be read and written.
Accessible(a, len) ==
  /\ AddressInRange(a)
  /\ \A i \in 0 .. (len - 1) :
       Mapped(AddressFrame(a) + ((AddressOffset(a) + i) \div EFI_PAGE_SIZE))

\* Memory after the bytes are stored at offset off of a frame: the
\* reservations and the free frames. A byte lands in the reservation that
\* holds its frame, or in the free frame itself. The bytes that fit in the
\* frame of the offset are stored there, the others in the frames after.
RECURSIVE StoreBytes(_, _, _, _, _, _)
StoreBytes(resv, free, frame, off, bytes, h) ==
  IF bytes = <<>> THEN [Reservations |-> resv, Free |-> free]
  ELSE LET f == frame + (off \div EFI_PAGE_SIZE)
           o == off % EFI_PAGE_SIZE
           room == EFI_PAGE_SIZE - o
           n == IF Len(bytes) <= room THEN Len(bytes) ELSE room
           held == Holder(resv, f)
           part == SubSeq(bytes, 1, n)
           r == IF held = {} THEN resv
                ELSE LET b == CHOOSE x \in held : TRUE
                     IN  [resv EXCEPT ![b] = CopyMem(@, (f - b) * EFI_PAGE_SIZE + o, part)]
           fr == IF held = {} THEN (f :> CopyMem(FreeFrame(free, f, h), o, part)) @@ free
                 ELSE free
       IN  IF n = Len(bytes) THEN [Reservations |-> r, Free |-> fr]
           ELSE StoreBytes(r, fr, f + 1, 0, SubSeq(bytes, n + 1, Len(bytes)), h)

\* The declarations of EFI_ACPI_DESCRIPTION_HEADER.OemTableId a build may
\* see: an array of 8 bytes, which Header->OemTableId names in place, or the
\* UINT64 of MdePkg, whose value SetMem and CopyMem take as the address.
OemTableIdLayouts == {"UINT8[8]", "UINT64"}

\* SetMem and CopyMem on Header->OemId.
SterilizeOemId(mem) == CopyMem(SetMem(mem, 10, 6, 32), 10, STEALTH_ACPI_OEM_ID)

\* SetMem and CopyMem on Header->OemTableId: memory afterwards, or a fault.
\* With the UINT64 declaration each call reads the field for its destination:
\* SetMem stores 8 spaces at the address the field holds, and CopyMem stores
\* the table id at the address the field holds after that, another address
\* when the spaces landed on the field itself.
SterilizeOemTableId(resv, free, Table, layout, h) ==
  LET Faulted(r, f) == [Fault |-> TRUE, Reservations |-> r, Free |-> f]
      Stored(m) == [Fault |-> FALSE, Reservations |-> m.Reservations, Free |-> m.Free]
      \* CopyMem, on the memory SetMem left
      Copied(m) ==
        LET a2 == ReadField(m.Reservations[Table], 16, 8)
        IN  IF ~Accessible(a2, Len(STEALTH_ACPI_OEM_TABLE_ID))
              THEN Faulted(m.Reservations, m.Free)
              ELSE Stored(StoreBytes(m.Reservations, m.Free, AddressFrame(a2),
                                     AddressOffset(a2), STEALTH_ACPI_OEM_TABLE_ID, h))
      a1 == ReadField(resv[Table], 16, 8)
  IN  IF layout = "UINT64"
        THEN IF ~Accessible(a1, 8) THEN Faulted(resv, free)
             ELSE Copied(StoreBytes(resv, free, AddressFrame(a1), AddressOffset(a1),
                                    <<32, 32, 32, 32, 32, 32, 32, 32>>, h))
        ELSE [Fault |-> FALSE,
              Reservations |->
                [resv EXCEPT ![Table] =
                   CopyMem(SetMem(@, 16, 8, 32), 16, STEALTH_ACPI_OEM_TABLE_ID)],
              Free |-> free]

\* The assignments to Header->CreatorId and Header->OemRevision.
SterilizeCreator(mem) ==
  CopyMem(CopyMem(mem, 28, STEALTH_ACPI_CREATOR_ID), 24, STEALTH_ACPI_OEM_REVISION)

\* Header->Checksum = 0.
ClearChecksum(mem) == SetMem(mem, 9, 1, 0)

\* SterilizeAcpiTable(Table, Length) on the blob reserved at frame Table:
\* memory afterwards (the reservations and the free frames), or a fault. The
\* checksum is computed over Header->Length bytes from the start of the blob,
\* wherever they end.
SterilizeAcpiTable(resv, free, Table, Length, layout, h) ==
  LET \* Header->Checksum = CalculateCheckSum8(Header, Header->Length), on the
      \* blob m whose checksum byte is cleared
      Summed(r, f, m) ==
        IF HeaderLengthInside(m)
          THEN [Fault |-> FALSE,
                Reservations |->
                  [r EXCEPT ![Table] =
                     SetMem(m, 9, 1, CalculateCheckSum8(m, 0, HeaderLength(m)))],
                Free |-> f]
          ELSE LET all == MemoryFrom(r, f, Table, h)
               IN  IF HeaderLengthInside(all)
                     THEN [Fault |-> FALSE,
                           Reservations |->
                             [r EXCEPT ![Table] =
                                SetMem(m, 9, 1,
                                       CalculateCheckSum8(all, 0, HeaderLength(all)))],
                           Free |-> f]
                     ELSE [Fault |-> TRUE, Reservations |-> r, Free |-> f]
      \* the checksum of the blob as it stands in r
      Cleared(r, f) == Summed(r, f, r[Table])
      \* what follows the rewrite of the OEM table id: the creator id, the
      \* OEM revision, the cleared checksum byte and the checksum
      Rest(t) ==
        IF t.Fault THEN t
        ELSE Cleared([t.Reservations EXCEPT ![Table] = ClearChecksum(SterilizeCreator(@))],
                     t.Free)
  IN  IF Length < AcpiHeaderSize
        THEN [Fault |-> FALSE, Reservations |-> resv, Free |-> free]
      ELSE IF layout = "UINT64" /\ ~Accessible(ReadField(resv[Table], 16, 8), 8)
        THEN [Fault |-> TRUE, Reservations |-> resv, Free |-> free]
      ELSE Rest(SterilizeOemTableId([resv EXCEPT ![Table] = SterilizeOemId(@)],
                                    free, Table, layout, h))

-----------------------------------------------------------------------------
(* ProcessCmdAllocate *)

\* A ceiling that ignores the restrictions.
AllocateCeilingFullWidth(Allocate, Restricted) == MAX_UINT64

\* The address ceiling ProcessCmdAllocate asks for.
AllocateCeiling(Allocate, Restricted) ==
  IF RestrictedFind(Restricted, Allocate.File) THEN MAX_UINT32 ELSE MAX_UINT64

\* QemuFwCfgReadBytes(FwCfgSize, Blob->Base): the file lands at the base.
QemuFwCfgReadBytes(mem, content) == Overwrite(mem, 0, content)

\* The blob contents without the zero fill of the last page.
BlobContentsNoZeroFill(fresh, content, Size, NumPages) ==
  QemuFwCfgReadBytes(fresh, content)

\* The blob contents after the read and the zero fill.
BlobContents(fresh, content, Size, NumPages) ==
  LET m1 == QemuFwCfgReadBytes(fresh, content)
  IN  ZeroMem(m1, Size, EFI_PAGES_TO_SIZE(NumPages) - Size)

\* A failing ProcessCmdAllocate that keeps its pages.
ReleaseNothing(resv, base, NumPages) == resv

\* The FreePages label of ProcessCmdAllocate: the pages go back.
ReleaseOnError(resv, base, NumPages) == FreePages(resv, base, NumPages)

\* The outcomes of ProcessCmdAllocate once the pages at base are reserved.
\* The pages hold what the frames held; a call that frees them again has
\* written nothing to them.
AllocateWithPages(Allocate, Tracker, resv, free, FwCfgSize, NumPages, ceiling, base, layout) ==
  LET name == AsciiStr(Allocate.File)
      got == LogAllocate(name, NumPages, ceiling, base, EFI_SUCCESS)
      Blob == [File |-> Allocate.File, Size |-> FwCfgSize, Base |-> base,
               HostsOnlyTableData |-> TRUE]
      \* the free frames that were stored into, without the pages of the blob
      others == [f \in DOMAIN free \ (base .. (base + NumPages - 1)) |-> free[f]]
      \* the blob is in Tracker and SterilizeAcpiTable has run on it
      Inserted(s, content) ==
        [Status |-> EFI_SUCCESS, Fault |-> s.Fault,
         Tracker |-> TrackerInsert(Tracker, Blob),
         Reservations |-> s.Reservations, Free |-> s.Free,
         Log |-> <<got>>, Served |-> <<name, content>>]
      Freed(st, fresh) ==
        [Status |-> st, Fault |-> FALSE, Tracker |-> Tracker,
         Reservations |-> ReleaseOnError(Reserve(resv, base, fresh), base, NumPages),
         Free |-> free,
         Log |-> <<got, LogFree(base, NumPages)>>, Served |-> <<>>]
  IN  UNION { LET fresh == PagesAt(free, base, NumPages, g) IN
              \* AllocatePool fails: FreePages
              {Freed(EFI_OUT_OF_RESOURCES, fresh)}
              \cup
              (IF TrackerFind(Tracker, Blob.File) # {}
                 \* RETURN_ALREADY_STARTED: FreeBlob, FreePages
                 THEN {Freed(EFI_PROTOCOL_ERROR, fresh)}
                 ELSE \* OrderedCollectionInsert runs out of memory
                      {Freed(EFI_OUT_OF_RESOURCES, fresh)}
                      \cup
                      { Inserted(SterilizeAcpiTable(
                                   Reserve(resv, base,
                                           BlobContents(fresh, content, Blob.Size, NumPages)),
                                   others, base, Blob.Size, layout, h),
                                 content) :
                          content \in FwCfgContents(name), h \in Garbage })
            : g \in Garbage }

\* The checks with the file looked up before the alignment is examined.
AllocatePrecheckLookupFirst(Allocate) ==
  IF ~NameTerminated(Allocate.File) THEN EFI_PROTOCOL_ERROR
  ELSE IF AsciiStr(Allocate.File) \notin DOMAIN FwCfgFiles THEN EFI_NOT_FOUND
  ELSE IF Allocate.Alignment > EFI_PAGE_SIZE THEN EFI_UNSUPPORTED
  ELSE EFI_SUCCESS

\* The checks ProcessCmdAllocate makes before it reserves anything.
AllocatePrecheck(Allocate) ==
  IF ~NameTerminated(Allocate.File) THEN EFI_PROTOCOL_ERROR
  ELSE IF Allocate.Alignment > EFI_PAGE_SIZE THEN EFI_UNSUPPORTED
  ELSE IF AsciiStr(Allocate.File) \notin DOMAIN FwCfgFiles THEN EFI_NOT_FOUND
  ELSE EFI_SUCCESS

ProcessCmdAllocate(Allocate, Tracker, Restricted, resv, free, layout) ==
  LET Return(st, log) ==
        [Status |-> st, Fault |-> FALSE, Tracker |-> Tracker, Reservations |-> resv,
         Free |-> free, Log |-> log, Served |-> <<>>]
  IN  IF EFI_ERROR(AllocatePrecheck(Allocate))
        THEN {Return(AllocatePrecheck(Allocate), <<>>)}
      ELSE LET FwCfgSize == FwCfgFiles[AsciiStr(Allocate.File)]
               NumPages == EFI_SIZE_TO_PAGES(FwCfgSize)
               Address == AllocateCeiling(Allocate, Restricted)
           IN  \* gBS->AllocatePages fails
               {Return(EFI_OUT_OF_RESOURCES,
                       <<LogAllocate(AsciiStr(Allocate.File), NumPages, Address, 0,
                                     EFI_OUT_OF_RESOURCES)>>)}
               \cup
               UNION { AllocateWithPages(Allocate, Tracker, resv, free, FwCfgSize,
                                         NumPages, Address, base, layout) :
                       base \in AllocatePages(resv, NumPages, Address) }

-----------------------------------------------------------------------------
(* ProcessCmdAddPointer and ProcessCmdAddChecksum *)

SupportedPointerSizes == {1, 2, 4, 8}

\* The blob a name refers to (the name is known to be in Tracker).
BlobOf(Tracker, file) == Tracker[CHOOSE i \in TrackerFind(Tracker, file) : TRUE]

\* The pointer value fits a field of size bytes.
FitsField(sum, size) ==
  sum.Carry = 0 /\ \A i \in (size + 1) .. 8 : sum.Sum[i] = 0

\* A patch that stores the pointee address and drops what the field held.
PatchedPointerOverwrite(mem, offset, size, base) ==
  [Sum |-> FrameAddress(base), Carry |-> 0]

\* The value ADD_POINTER computes: what the field holds plus the pointee address.
PatchedPointer(mem, offset, size, base) ==
  AddLE(ZeroExtend(ReadField(mem, offset, size)), FrameAddress(base))

\* A checksum computed with the byte at checksum_offset left as it was.
ChecksumByteKept(mem, offset) == mem

\* The blob as the sum sees it: the byte at checksum_offset does not count,
\* so that the range sums to zero with the new byte in it whatever the old
\* one was (the checksum invariant).
ChecksumByteCleared(mem, offset) == SetMem(mem, offset, 1, 0)

\* The byte ADD_CHECKSUM stores: the negated sum of the range.
PatchedChecksum(mem, start, length) == CalculateCheckSum8(mem, start, length)

ProcessCmdAddPointer(AddPointer, Tracker, resv) ==
  LET Return(st) == [Status |-> st, Reservations |-> resv] IN
  IF ~NameTerminated(AddPointer.PointerFile) \/ ~NameTerminated(AddPointer.PointeeFile)
    THEN Return(EFI_PROTOCOL_ERROR)
  ELSE IF TrackerFind(Tracker, AddPointer.PointerFile) = {}
          \/ TrackerFind(Tracker, AddPointer.PointeeFile) = {}
    THEN Return(EFI_PROTOCOL_ERROR)
  ELSE LET Blob == BlobOf(Tracker, AddPointer.PointerFile)
           Blob2 == BlobOf(Tracker, AddPointer.PointeeFile)
       IN  IF AddPointer.PointerSize \notin SupportedPointerSizes
                \/ AddPointer.PointerOffset + AddPointer.PointerSize > Blob.Size
             THEN Return(EFI_PROTOCOL_ERROR)
           ELSE LET mem == resv[Blob.Base]
                    PointerValue ==
                      PatchedPointer(mem, AddPointer.PointerOffset,
                                     AddPointer.PointerSize, Blob2.Base)
                IN  IF ~FitsField(PointerValue, AddPointer.PointerSize)
                      THEN Return(EFI_UNSUPPORTED)
                      ELSE [Status |-> EFI_SUCCESS,
                            Reservations |->
                              [resv EXCEPT ![Blob.Base] =
                                 CopyMem(mem, AddPointer.PointerOffset,
                                         SubSeq(PointerValue.Sum, 1,
                                                AddPointer.PointerSize))]]

ProcessCmdAddChecksum(AddChecksum, Tracker, resv) ==
  LET Return(st) == [Status |-> st, Reservations |-> resv] IN
  IF ~NameTerminated(AddChecksum.File) THEN Return(EFI_PROTOCOL_ERROR)
  ELSE IF TrackerFind(Tracker, AddChecksum.File) = {} THEN Return(EFI_PROTOCOL_ERROR)
  ELSE LET Blob == BlobOf(Tracker, AddChecksum.File) IN
       IF AddChecksum.ResultOffset >= Blob.Size
            \/ AddChecksum.Start + AddChecksum.Length > Blob.Size
         THEN Return(EFI_PROTOCOL_ERROR)
       ELSE LET mem == ChecksumByteCleared(resv[Blob.Base], AddChecksum.ResultOffset)
            IN  [Status |-> EFI_SUCCESS,
                 Reservations |->
                   [resv EXCEPT ![Blob.Base] =
                      SetMem(mem, AddChecksum.ResultOffset, 1,
                             PatchedChecksum(mem, AddChecksum.Start,
                                             AddChecksum.Length))]]

-----------------------------------------------------------------------------
(* Scripts *)

Allocate(file, alignment) ==
  [Type |-> QemuLoaderCmdAllocate, File |-> file, Alignment |-> alignment]

AddPointer(pointer, pointee, offset, size) ==
  [Type |-> QemuLoaderCmdAddPointer, PointerFile |-> pointer, PointeeFile |-> pointee,
   PointerOffset |-> offset, PointerSize |-> size]

AddChecksum(file, result, start, length) ==
  [Type |-> QemuLoaderCmdAddChecksum, File |-> file, ResultOffset |-> result,
   Start |-> start, Length |-> length]

WritePointer == [Type |-> QemuLoaderCmdWritePointer]

FileA == Pad(NameA)
FileB == Pad(NameB)
FileC == Pad(NameC)
FileD == Pad(NameD)
FileE == Pad(NameE)
\* The string "A" again, with other bytes after its NUL.
FileAJunk == [FileA EXCEPT ![3] = 88]
\* A name whose only character has its high bit set.
FileHigh == Pad(<<200>>)
\* A buffer whose last byte is not NUL.
Unterminated == [FileA EXCEPT ![QEMU_LOADER_FNAME_SIZE] = 88]

\* Commands that exercise the checks ProcessCmdAllocate makes first.
CheckCommands ==
  { Allocate(FileA, EFI_PAGE_SIZE), Allocate(FileA, 2 * EFI_PAGE_SIZE),
    Allocate(Unterminated, EFI_PAGE_SIZE), Allocate(Unterminated, 2 * EFI_PAGE_SIZE),
    Allocate(FileC, EFI_PAGE_SIZE), Allocate(FileC, 2 * EFI_PAGE_SIZE) }

\* Commands that materialize blobs of every size class.
BlobCommands ==
  { Allocate(FileA, EFI_PAGE_SIZE), Allocate(FileB, EFI_PAGE_SIZE), Allocate(FileD, 1),
    Allocate(FileE, 16), Allocate(FileAJunk, EFI_PAGE_SIZE) }

\* Commands that patch blobs.
PatchCommands ==
  { AddPointer(FileA, FileE, 36, 4), AddPointer(FileA, FileE, 36, 8),
    AddPointer(FileA, FileE, 44, 8), AddPointer(FileA, FileA, 46, 2),
    AddChecksum(FileA, 36, 36, 12), AddChecksum(FileA, 47, 36, 8),
    AddChecksum(FileA, 40, 40, 9) }

\* Commands that the pre-pass reads.
PointerCommands ==
  { AddPointer(FileA, FileB, 36, 4), AddPointer(FileA, FileA, 36, 1),
    AddPointer(FileB, FileAJunk, 36, 2), AddPointer(FileA, FileB, 36, 8),
    AddPointer(FileA, Unterminated, 36, 4), AddPointer(FileA, Unterminated, 36, 8),
    AddPointer(FileB, FileHigh, 36, 2), WritePointer }

SeqsUpTo(S, n) == UNION {[1 .. k -> S] : k \in 0 .. n}

\* Two allocations followed by patches of the blobs they make.
PatchScripts ==
  {<<Allocate(FileA, EFI_PAGE_SIZE), Allocate(FileE, EFI_PAGE_SIZE)>> \o t :
     t \in SeqsUpTo(PatchCommands, MaxPatches)}

\* Scripts whose AddPointer stands before an Allocate of its pointee: before
\* the only one, where the AddPointer finds no blob and ends the pass, and
\* between two, where it succeeds and the second Allocate reserves pages
\* before it is refused as a duplicate.
ForwardScripts ==
  UNION { { <<AddPointer(FileA, FileE, 36, size), Allocate(FileE, EFI_PAGE_SIZE),
              Allocate(FileA, EFI_PAGE_SIZE)>>,
            <<Allocate(FileA, EFI_PAGE_SIZE), AddPointer(FileA, FileA, 36, size),
              Allocate(FileA, EFI_PAGE_SIZE)>> } : size \in {4, 8} }

Scripts ==
  SeqsUpTo(CheckCommands, MaxScript) \cup SeqsUpTo(BlobCommands, MaxBlobs)
    \cup PatchScripts \cup ForwardScripts \cup SeqsUpTo(PointerCommands, MaxScript)

-----------------------------------------------------------------------------
(* The interpretation pass *)

\* The SMBIOS driver has not been entered.
SmbiosIdle ==
  /\ TableAddress = NULL
  /\ generated = NULL
  /\ smbiosPc = "idle"
  /\ SmbiosTable = 0
  /\ NeedSmbiosType0 = TRUE
  /\ smbiosStatus = EFI_SUCCESS
  /\ added = <<>>
  /\ maxRead = -1

Init ==
  /\ script \in Scripts
  /\ pc = "start"
  /\ idx = 1
  /\ status = EFI_SUCCESS
  /\ restricted = <<>>
  /\ tracker = <<>>
  /\ reservations = <<>>
  /\ freeMem = <<>>
  /\ build \in OemTableIdLayouts
  /\ fwcfg = <<>>
  /\ reserveLog = <<>>
  /\ installed = <<>>
  /\ SmbiosIdle

\* The pre-pass: CollectAllocationsRestrictedTo32Bit on the whole script.
Collect ==
  /\ pc = "start"
  /\ \E initFails \in BOOLEAN, oomAt \in 0 .. Len(script) :
       LET r == CollectAllocationsRestrictedTo32Bit(script, initFails, oomAt) IN
       /\ status' = r.Status
       /\ restricted' = r.Collection
       /\ pc' = IF EFI_ERROR(r.Status) THEN "failed" ELSE "run"
  /\ UNCHANGED <<script, idx, tracker, reservations, freeMem, build, fwcfg, reserveLog,
                 installed>>
  /\ UNCHANGED smbiosVars

\* What the loop does with the status a command handler returned.
Dispatch(st) ==
  /\ status' = st
  /\ pc' = IF EFI_ERROR(st) THEN "rollback" ELSE "run"
  /\ idx' = IF EFI_ERROR(st) THEN idx ELSE idx + 1

CmdAllocate ==
  /\ pc = "run" /\ idx <= Len(script)
  /\ script[idx].Type = QemuLoaderCmdAllocate
  /\ \E r \in ProcessCmdAllocate(script[idx], tracker, restricted, reservations,
                                  freeMem, build) :
       /\ IF r.Fault
            THEN \* SterilizeAcpiTable faulted: the pass goes no further
                 pc' = "fault" /\ UNCHANGED <<status, idx>>
            ELSE Dispatch(r.Status)
       /\ tracker' = r.Tracker
       /\ reservations' = r.Reservations
       /\ freeMem' = r.Free
       /\ reserveLog' = r.Log
       /\ fwcfg' = IF r.Served = <<>> THEN fwcfg
                   ELSE (r.Served[1] :> r.Served[2]) @@ fwcfg
  /\ UNCHANGED <<script, restricted, build, installed>>
  /\ UNCHANGED smbiosVars

CmdAddPointer ==
  /\ pc = "run" /\ idx <= Len(script)
  /\ script[idx].Type = QemuLoaderCmdAddPointer
  /\ LET r == ProcessCmdAddPointer(script[idx], tracker, reservations) IN
       /\ Dispatch(r.Status)
       /\ reservations' = r.Reservations
  /\ reserveLog' = <<>>
  /\ UNCHANGED <<script, restricted, tracker, freeMem, build, fwcfg, installed>>
  /\ UNCHANGED smbiosVars

CmdAddChecksum ==
  /\ pc = "run" /\ idx <= Len(script)
  /\ script[idx].Type = QemuLoaderCmdAddChecksum
  /\ LET r == ProcessCmdAddChecksum(script[idx], tracker, reservations) IN
       /\ Dispatch(r.Status)
       /\ reservations' = r.Reservations
  /\ reserveLog' = <<>>
  /\ UNCHANGED <<script, restricted, tracker, freeMem, build, fwcfg, installed>>
  /\ UNCHANGED smbiosVars

\* Any other command kind is skipped.
CmdOther ==
  /\ pc = "run" /\ idx <= Len(script)
  /\ script[idx].Type \notin
       {QemuLoaderCmdAllocate, QemuLoaderCmdAddPointer, QemuLoaderCmdAddChecksum}
  /\ Dispatch(EFI_SUCCESS)
  /\ reserveLog' = <<>>
  /\ UNCHANGED <<script, restricted, tracker, reservations, freeMem, build, fwcfg,
                 installed>>
  /\ UNCHANGED smbiosVars

\* Releasing every blob of Tracker, first to last.
RECURSIVE ReleaseBlobs(_, _, _)
ReleaseBlobs(Tracker, i, r) ==
  IF i > Len(Tracker) THEN r
  ELSE LET pages == EFI_SIZE_TO_PAGES(Tracker[i].Size) IN
       ReleaseBlobs(Tracker, i + 1,
                    [Reservations |-> FreePages(r.Reservations, Tracker[i].Base, pages),
                     Log |-> Append(r.Log, LogFree(Tracker[i].Base, pages))])

\* A command failed: the pass frees the blobs and the collections.
RollBack ==
  /\ pc = "rollback"
  /\ LET r == ReleaseBlobs(tracker, 1, [Reservations |-> reservations, Log |-> <<>>]) IN
       /\ reservations' = r.Reservations
       /\ reserveLog' = r.Log
  /\ tracker' = <<>>
  /\ restricted' = <<>>
  /\ pc' = "failed"
  /\ UNCHANGED <<script, idx, status, freeMem, build, fwcfg, installed>>
  /\ UNCHANGED smbiosVars

\* Every command succeeded: the blobs are handed over for installation.
InstallTables ==
  /\ pc = "run" /\ idx > Len(script)
  /\ installed' = [i \in 1 .. Len(tracker) |-> AsciiStr(tracker[i].File)]
  /\ pc' = "done"
  /\ reserveLog' = <<>>
  /\ UNCHANGED <<script, idx, status, restricted, tracker, reservations, freeMem, build,
                 fwcfg>>
  /\ UNCHANGED smbiosVars

Next ==
  \/ Collect
  \/ CmdAllocate
  \/ CmdAddPointer
  \/ CmdAddChecksum
  \/ CmdOther
  \/ RollBack
  \/ InstallTables

Spec == Init /\ [][Next]_vars

-----------------------------------------------------------------------------
(* Vocabulary of the properties *)

IsAllocate(i) == script[i].Type = QemuLoaderCmdAllocate
IsAddPointer(i) == script[i].Type = QemuLoaderCmdAddPointer
IsAddChecksum(i) == script[i].Type = QemuLoaderCmdAddChecksum

\* The pass has just returned from command idx - 1 with success.
JustSucceeded == pc = "run" /\ idx > 1 /\ status = EFI_SUCCESS

\* The pass has just returned from command idx with an error.
JustFailed == pc = "rollback"

\* The pass is about to process command idx.
AboutToProcess == pc = "run" /\ idx <= Len(script)

\* The names the script restricts: the pointees of its narrow pointers.
NarrowPointees(s) ==
  {AsciiStr(s[i].PointeeFile) :
     i \in {j \in 1 .. Len(s) : s[j].Type = QemuLoaderCmdAddPointer /\ s[j].PointerSize < 8}}

TrackerNames == {AsciiStr(tracker[i].File) : i \in 1 .. Len(tracker)}

\* The blob lies wholly below the 4 GiB boundary.
Below4G(blob) ==
  \A f \in blob.Base .. (blob.Base + EFI_SIZE_TO_PAGES(blob.Size) - 1) : f < Pfn4G

-----------------------------------------------------------------------------
(* C1: when a pass returns an error, no page is reserved any more, the blob *)
(* directory is empty and nothing was handed to the installation service.   *)
C1_RollbackLeavesNothing ==
  pc = "failed" =>
    /\ PagesReserved(reservations) = 0
    /\ DOMAIN reservations = {}
    /\ tracker = <<>>
    /\ installed = <<>>

\* The second Allocate of a pass failed for lack of memory after the first
\* one had materialized its blob, and the pass has returned.
C1_Witness ==
  /\ pc = "failed" /\ idx = 2 /\ status = EFI_OUT_OF_RESOURCES
  /\ IsAllocate(1) /\ IsAllocate(2)
  /\ DOMAIN fwcfg # {}
  /\ Len(reserveLog) = 1 /\ reserveLog[1].Op = "FreePages"

(* C2: the names in the blob directory are pairwise distinct, the directory *)
(* holds one entry per Allocate command that has succeeded so far, and after *)
(* a successful pass it holds as many entries as the script has distinct     *)
(* Allocate file names.                                                      *)
C2_DirectoryUnique ==
  /\ \A i, j \in 1 .. Len(tracker) :
       i # j => AsciiStr(tracker[i].File) # AsciiStr(tracker[j].File)
  /\ pc \in {"run", "rollback", "done"} =>
       Len(tracker) = Cardinality({i \in 1 .. (idx - 1) : IsAllocate(i)})
  /\ pc = "done" =>
       Len(tracker) =
         Cardinality({AsciiStr(script[i].File) : i \in {j \in 1 .. Len(script) : IsAllocate(j)}})

\* A pass that allocated two blobs has completed.
C2_Witness == pc = "done" /\ Len(tracker) = 2 /\ Cardinality(TrackerNames) = 2

(* C3 as stated: an Allocate of a name that is already in the directory     *)
(* fails with the protocol error.                                            *)
C3_DuplicateIsProtocolError ==
  (JustFailed /\ IsAllocate(idx) /\ TrackerFind(tracker, script[idx].File) # {})
    => status = EFI_PROTOCOL_ERROR

(* C3 amended: an Allocate of a name that is already in the directory never *)
(* succeeds; it fails with the protocol error unless an earlier step of the  *)
(* command fails first (Unsupported for an alignment above one page, or the  *)
(* error of the page reservation or of the pool allocation); it leaves the   *)
(* directory and its blobs as they were, and frees the pages it reserved.    *)
C3_DuplicateRefused ==
  [][ (AboutToProcess /\ IsAllocate(idx) /\ TrackerFind(tracker, script[idx].File) # {})
      => /\ status' \in {EFI_PROTOCOL_ERROR, EFI_UNSUPPORTED, EFI_OUT_OF_RESOURCES}
         /\ status' = EFI_UNSUPPORTED =>
              (NameTerminated(script[idx].File) /\ script[idx].Alignment > EFI_PAGE_SIZE)
         /\ status' = EFI_OUT_OF_RESOURCES =>
              AllocatePrecheck(script[idx]) = EFI_SUCCESS
         /\ tracker' = tracker
         /\ reservations' = reservations
         /\ \A k \in 1 .. Len(reserveLog') :
              (reserveLog'[k].Op = "AllocatePages" /\ reserveLog'[k].Status = EFI_SUCCESS)
                => /\ k < Len(reserveLog')
                   /\ reserveLog'[k + 1] = LogFree(reserveLog'[k].Base, reserveLog'[k].Pages)
    ]_vars

\* A second Allocate of a name reserved pages, was refused as a duplicate and
\* gave the pages back.
C3_Witness ==
  /\ JustFailed /\ IsAllocate(idx) /\ status = EFI_PROTOCOL_ERROR
  /\ TrackerFind(tracker, script[idx].File) # {}
  /\ Len(reserveLog) = 2 /\ reserveLog[2].Op = "FreePages"

(* C4: a blob named as the pointee of a pointer narrower than 8 bytes is    *)
(* reserved with the 32-bit ceiling and lies below the 4 GiB boundary; any   *)
(* other blob is reserved with the full-width ceiling.                       *)
C4_RestrictedPlacement ==
  /\ \A i \in 1 .. Len(tracker) :
       AsciiStr(tracker[i].File) \in NarrowPointees(script) => Below4G(tracker[i])
  /\ \A k \in 1 .. Len(reserveLog) :
       reserveLog[k].Op = "AllocatePages" =>
         reserveLog[k].Ceiling =
           (IF reserveLog[k].File \in NarrowPointees(script) THEN MAX_UINT32 ELSE MAX_UINT64)

\* An Allocate that stands behind a narrow AddPointer naming its blob has
\* just asked for pages with the 32-bit ceiling while a frame above the
\* boundary was free, and was refused as a duplicate; the blob the first
\* Allocate of the name made sits below the boundary.
C4_Witness ==
  /\ JustFailed /\ IsAllocate(idx)
  /\ \E j \in 1 .. (idx - 1) :
       /\ IsAddPointer(j) /\ script[j].PointerSize < 8
       /\ AsciiStr(script[j].PointeeFile) = AsciiStr(script[idx].File)
  /\ Len(reserveLog) = 2
  /\ reserveLog[1].Op = "AllocatePages" /\ reserveLog[1].Ceiling = MAX_UINT32
  /\ reserveLog[1].Status = EFI_SUCCESS /\ reserveLog[1].Base < Pfn4G
  /\ Pfn4G \notin Occupied(reservations)
  /\ \E i \in 1 .. Len(tracker) :
       AsciiStr(tracker[i].File) = AsciiStr(script[idx].File) /\ Below4G(tracker[i])

-----------------------------------------------------------------------------
\* a - b over little-endian fields of one width: the difference, and the borrow.
RECURSIVE SubLEFrom(_, _, _, _)
SubLEFrom(a, b, i, borrow) ==
  IF i > Len(a) THEN [Diff |-> <<>>, Borrow |-> borrow]
  ELSE LET t == a[i] - b[i] - borrow
           r == SubLEFrom(a, b, i + 1, IF t < 0 THEN 1 ELSE 0)
       IN  [Diff |-> <<(t + 256) % 256>> \o r.Diff, Borrow |-> r.Borrow]

SubLE(a, b) == SubLEFrom(a, b, 1, 0)

IsZero(field) == \A i \in 1 .. Len(field) : field[i] = 0

(* C5: after an AddPointer command that succeeds, the value read back from  *)
(* the pointer field minus the base address of the pointee blob is the value *)
(* the field held just before the command; a field that held zero holds the  *)
(* base address of the pointee.                                              *)
C5_AdditivePatchRoundTrip ==
  [][ (AboutToProcess /\ IsAddPointer(idx) /\ pc' = "run")
      => LET cmd == script[idx]
             Blob == BlobOf(tracker, cmd.PointerFile)
             Blob2 == BlobOf(tracker, cmd.PointeeFile)
             before == ReadField(reservations[Blob.Base], cmd.PointerOffset, cmd.PointerSize)
             after == ReadField(reservations'[Blob.Base], cmd.PointerOffset, cmd.PointerSize)
             back == SubLE(ZeroExtend(after), FrameAddress(Blob2.Base))
         IN  /\ back.Borrow = 0
             /\ back.Diff = ZeroExtend(before)
             /\ IsZero(before) => ZeroExtend(after) = FrameAddress(Blob2.Base)
    ]_vars

\* An AddPointer command has just patched a field that held a displacement.
C5_Witness ==
  /\ JustSucceeded /\ IsAddPointer(idx - 1)
  /\ LET cmd == script[idx - 1]
         Blob == BlobOf(tracker, cmd.PointerFile)
         Blob2 == BlobOf(tracker, cmd.PointeeFile)
     IN  ZeroExtend(ReadField(reservations[Blob.Base], cmd.PointerOffset, cmd.PointerSize))
           # FrameAddress(Blob2.Base)

\* The checksum byte of an AddChecksum command lies in the range it sums.
ChecksumInRange(cmd) ==
  cmd.Start <= cmd.ResultOffset /\ cmd.ResultOffset < cmd.Start + cmd.Length

HasMalformedNarrowPointee(s) ==
  \E i \in 1 .. Len(s) :
    /\ s[i].Type = QemuLoaderCmdAddPointer
    /\ s[i].PointerSize < 8
    /\ ~NameTerminated(s[i].PointeeFile)

(* C7 as stated: the pre-pass never returns the protocol error.              *)
C7_CollectNeverProtocolError ==
  [][pc = "start" => status' # EFI_PROTOCOL_ERROR]_vars

(* C7 amended: the pre-pass returns the protocol error only for a script     *)
(* that holds an AddPointer command narrower than 8 bytes whose pointee_file *)
(* buffer does not end in NUL, and for such a script it never succeeds; for  *)
(* every other script it returns a Restriction Set or fails with resource    *)
(* exhaustion.                                                               *)
C7_CollectProtocolErrorIffMalformed ==
  [][ pc = "start"
      => /\ status' \in {EFI_SUCCESS, EFI_PROTOCOL_ERROR, EFI_OUT_OF_RESOURCES}
         /\ status' = EFI_PROTOCOL_ERROR => HasMalformedNarrowPointee(script)
         /\ HasMalformedNarrowPointee(script) => status' # EFI_SUCCESS
         /\ (status' = EFI_SUCCESS) = (pc' = "run")
    ]_vars

\* The pre-pass has failed on a script whose first command is a narrow
\* AddPointer with a pointee name that is not terminated.
C7_Witness ==
  /\ pc = "failed" /\ status = EFI_PROTOCOL_ERROR
  /\ Len(script) >= 1 /\ IsAddPointer(1)
  /\ script[1].PointerSize < 8 /\ ~NameTerminated(script[1].PointeeFile)

\* The names of a collection of restricted names.
NamesOf(coll) == {AsciiStr(coll[i]) : i \in 1 .. Len(coll)}

\* The script with its commands in the order p.
Permuted(s, p) == [i \in 1 .. Len(s) |-> s[p[i]]]

Orders(n) == {p \in [1 .. n -> 1 .. n] : \A i, j \in 1 .. n : p[i] = p[j] => i = j}

(* C8: when the pre-pass succeeds, the Restriction Set is exactly the set of *)
(* pointee names of the AddPointer commands narrower than 8 bytes, each name *)
(* recorded once; the commands taken in any other order, or the pre-pass run *)
(* again, give the same set.                                                 *)
C8_RestrictionSetContent ==
  pc \in {"run", "rollback", "done"} =>
    /\ NamesOf(restricted) = NarrowPointees(script)
    /\ Cardinality(NamesOf(restricted)) = Len(restricted)
    /\ \A p \in Orders(Len(script)) :
         LET r == CollectAllocationsRestrictedTo32Bit(Permuted(script, p), FALSE, 0)
         IN  r.Status = EFI_SUCCESS /\ NamesOf(r.Collection) = NamesOf(restricted)

\* The pre-pass has succeeded on three narrow pointers that name two blobs.
C8_Witness ==
  /\ pc = "run" /\ Len(restricted) = 2
  /\ Cardinality({i \in 1 .. Len(script) : IsAddPointer(i) /\ script[i].PointerSize < 8}) = 3

(* C9: an Allocate command with a file name that is not NUL-terminated fails *)
(* with ProtocolError; otherwise with an alignment above one page it fails   *)
(* with Unsupported; otherwise with a name the fw_cfg host does not export   *)
(* it fails with NotFound. In the three cases no page reservation is         *)
(* attempted and the directory and the reservations are unchanged. Otherwise *)
(* (so with an alignment of exactly one page) the command goes on to reserve *)
(* pages.                                                                    *)
C9_AllocatePreconditions ==
  [][ (AboutToProcess /\ IsAllocate(idx))
      => LET cmd == script[idx]
             terminated == cmd.File[QEMU_LOADER_FNAME_SIZE] = 0
             aligned == cmd.Alignment <= EFI_PAGE_SIZE
             exported == AsciiStr(cmd.File) \in DOMAIN FwCfgFiles
             untouched == /\ reserveLog' = <<>>
                          /\ tracker' = tracker
                          /\ reservations' = reservations
                          /\ pc' = "rollback"
         IN  /\ ~terminated => (status' = EFI_PROTOCOL_ERROR /\ untouched)
             /\ (terminated /\ ~aligned) => (status' = EFI_UNSUPPORTED /\ untouched)
             /\ (terminated /\ aligned /\ ~exported) => (status' = EFI_NOT_FOUND /\ untouched)
             /\ (terminated /\ aligned /\ exported)
                  => /\ status' \notin {EFI_UNSUPPORTED, EFI_NOT_FOUND}
                     /\ Len(reserveLog') >= 1
                     /\ reserveLog'[1].Op = "AllocatePages"
    ]_vars

\* An Allocate command with an alignment above one page, for a file the host
\* does not export, has just failed with Unsupported.
C9_Witness ==
  /\ JustFailed /\ IsAllocate(idx) /\ status = EFI_UNSUPPORTED
  /\ script[idx].Alignment > EFI_PAGE_SIZE
  /\ AsciiStr(script[idx].File) \notin DOMAIN FwCfgFiles

\* The whole pages a blob of the given size takes.
WholePages(size) == (size + EFI_PAGE_SIZE - 1) \div EFI_PAGE_SIZE

WithoutOemFields(mem) == SetMem(mem, 9, 23, 0)

\* The OEM table id of the file (its bytes 16 to 23), taken as an address,
\* names 8 bytes of which at least one lies in the pages at frame base.
TableIdPointsInto(src, base, pages) ==
  LET a == ReadField(src, 16, 8)
  IN  /\ AddressInRange(a)
      /\ \E i \in 0 .. 7 :
           AddressFrame(a) + ((AddressOffset(a) + i) \div EFI_PAGE_SIZE)
             \in base .. (base + pages - 1)

\* The Allocate that made the blob stored through the OEM table id into the
\* blob's own pages: the defect of C15.
StoredThroughTableId(src, Blob) ==
  /\ build = "UINT64"
  /\ Blob.Size >= AcpiHeaderSize
  /\ TableIdPointsInto(src, Blob.Base, WholePages(Blob.Size))

-----------------------------------------------------------------------------
(* GenerateFakeSmbiosTables: the SMBIOS tables the driver builds *)

SIZEOF_SMBIOS_STRUCTURE == 4
SIZEOF_SMBIOS_TABLE_TYPE0 == 26
SIZEOF_SMBIOS_TABLE_TYPE1 == 27

\* The strings, as the ASCII codes of their characters (the NUL not included).
\* "American Megatrends Inc."
STEALTH_BIOS_VENDOR ==
  <<65, 109, 101, 114, 105, 99, 97, 110, 32, 77, 101, 103, 97, 116, 114,
    101, 110, 100, 115, 32, 73, 110, 99, 46>>
\* "F.43"
STEALTH_BIOS_VERSION ==
  <<70, 46, 52, 51>>
\* "04/01/2023"
STEALTH_BIOS_RELEASE_DATE ==
  <<48, 52, 47, 48, 49, 47, 50, 48, 50, 51>>
\* "Dell Inc."
STEALTH_SYSTEM_MANUFACTURER ==
  <<68, 101, 108, 108, 32, 73, 110, 99, 46>>
\* "PowerEdge R740"
STEALTH_SYSTEM_PRODUCT ==
  <<80, 111, 119, 101, 114, 69, 100, 103, 101, 32, 82, 55, 52, 48>>
\* "1.0"
STEALTH_SYSTEM_VERSION ==
  <<49, 46, 48>>
\* "2M3WK73"
STEALTH_SYSTEM_SERIAL ==
  <<50, 77, 51, 87, 75, 55, 51>>
\* "SKU=NotProvided;ModelName=PowerEdge R740"
STEALTH_SYSTEM_SKU ==
  <<83, 75, 85, 61, 78, 111, 116, 80, 114, 111, 118, 105, 100, 101, 100, 59,
    77, 111, 100, 101, 108, 78, 97, 109, 101, 61, 80, 111, 119, 101, 114,
    69, 100, 103, 101, 32, 82, 55, 52, 48>>
\* "PowerEdge"
STEALTH_SYSTEM_FAMILY ==
  <<80, 111, 119, 101, 114, 69, 100, 103, 101>>

Type0Strings == <<STEALTH_BIOS_VENDOR, STEALTH_BIOS_VERSION, STEALTH_BIOS_RELEASE_DATE>>

Type1Strings ==
  <<STEALTH_SYSTEM_MANUFACTURER, STEALTH_SYSTEM_PRODUCT, STEALTH_SYSTEM_VERSION,
    STEALTH_SYSTEM_SERIAL, STEALTH_SYSTEM_SKU, STEALTH_SYSTEM_FAMILY>>

\* AllocateZeroPool(size): size zero bytes, and no write beyond them seen yet.
AllocateZeroPool(size) == [Data |-> [i \in 1 .. size |-> 0], Overrun |-> FALSE]

\* bytes stored at offset off of the pool; bytes that fall beyond the pool
\* land outside it.
PoolWrite(pool, off, bytes) ==
  LET n == Len(pool.Data)
      fit == IF off >= n THEN 0
             ELSE IF off + Len(bytes) > n THEN n - off ELSE Len(bytes)
  IN  [Data |-> SubSeq(pool.Data, 1, IF off > n THEN n ELSE off)
                  \o SubSeq(bytes, 1, fit)
                  \o SubSeq(pool.Data, off + fit + 1, n),
       Overrun |-> pool.Overrun \/ off + Len(bytes) > n]

\* The loop of AppendSmbiosStrings from string Index on.
RECURSIVE AppendLoop(_, _, _, _, _)
AppendLoop(pool, TablePtr, Strings, Index, Offset) ==
  IF Index > Len(Strings) THEN [Pool |-> pool, Offset |-> Offset]
  ELSE LET StringLen == Len(Strings[Index]) + 1
       IN  AppendLoop(PoolWrite(pool, TablePtr + Offset, Strings[Index] \o <<0>>),
                      TablePtr, Strings, Index + 1, Offset + StringLen)

\* AppendSmbiosStrings without the NUL that ends the string area.
AppendSmbiosStringsNoFinalNul(pool, TablePtr, Strings) ==
  AppendLoop(pool, TablePtr, Strings, 1, 0)

\* AppendSmbiosStrings(TablePtr, Strings, StringCount): the pool after the
\* strings are appended, and the size of the string area.
AppendSmbiosStrings(pool, TablePtr, Strings) ==
  LET r == AppendLoop(pool, TablePtr, Strings, 1, 0)
  IN  [Pool |-> PoolWrite(r.Pool, TablePtr + r.Offset, <<0>>), Offset |-> r.Offset + 1]

RECURSIVE SumLen(_)
SumLen(Strings) == IF Strings = <<>> THEN 0 ELSE Len(Head(Strings)) + 1 + SumLen(Tail(Strings))

\* The size GenerateFakeSmbiosTables asks the pool for.
TotalSize ==
  SIZEOF_SMBIOS_TABLE_TYPE0 + SumLen(Type0Strings) + 1
    + SIZEOF_SMBIOS_TABLE_TYPE1 + SumLen(Type1Strings) + 1
    + SIZEOF_SMBIOS_STRUCTURE + 2

\* The fixed portion of the BIOS information record the generator writes.
GeneratedType0 ==
  <<0, SIZEOF_SMBIOS_TABLE_TYPE0, 0, 0>> \o <<1, 2, 0, 232, 3, 0>>
    \o <<128, 154, 9, 60, 0, 0, 0, 0>> \o <<11, 16>> \o <<2, 43, 255, 255>> \o <<0, 0>>

\* The fixed portion of the system information record the generator writes.
GeneratedType1 ==
  <<1, SIZEOF_SMBIOS_TABLE_TYPE1, 1, 0>> \o <<1, 2, 3, 4>>
    \o <<120, 86, 52, 18, 52, 18, 120, 86, 18, 52, 86, 120, 154, 188, 222, 240>>
    \o <<6, 5, 6>>

GeneratedType127 == <<127, SIZEOF_SMBIOS_STRUCTURE, 127, 0>>

\* GenerateFakeSmbiosTables: NULL when the pool is exhausted; otherwise the
\* data, the final value of CurrentPtr as an offset, and whether a write fell
\* beyond the pool.
GenerateFakeSmbiosTables(poolFails) ==
  IF poolFails THEN NULL
  ELSE LET p0 == AllocateZeroPool(TotalSize)
           p1 == PoolWrite(p0, 0, GeneratedType0)
           c1 == SIZEOF_SMBIOS_TABLE_TYPE0
           s1 == AppendSmbiosStrings(p1, c1, Type0Strings)
           c2 == c1 + s1.Offset
           p2 == PoolWrite(s1.Pool, c2, GeneratedType1)
           c3 == c2 + SIZEOF_SMBIOS_TABLE_TYPE1
           s2 == AppendSmbiosStrings(p2, c3, Type1Strings)
           c4 == c3 + s2.Offset
           p3 == PoolWrite(s2.Pool, c4, GeneratedType127)
           c5 == c4 + SIZEOF_SMBIOS_STRUCTURE
           p4 == PoolWrite(PoolWrite(p3, c5, <<0>>), c5 + 1, <<0>>)
       IN  [Data |-> p4.Data, CurrentPtr |-> c5 + 2, TotalSize |-> TotalSize,
            Overrun |-> p4.Overrun]

-----------------------------------------------------------------------------
(* InstallAllStructures: the walk over the SMBIOS tables *)

\* Longest table handed to InstallAllStructures, in records.
MaxRecords == 3

SMBIOS_HANDLE_PI_RESERVED == <<254, 255>>

\* The bytes at and after TableAddress: the tables, then whatever follows
\* them in memory. An offset at or beyond Len(Memory(T)) cannot be read.
Memory(T) == T.Data \o T.Beyond

Highest(a, b) == IF a < b THEN b ELSE a

\* The scan of SmbiosTableLength from offset a: the offset of the first pair
\* of NUL bytes, or a fault when the scan leaves the readable bytes. The
\* second byte of a pair is read only when the first one is NUL.
RECURSIVE ScanDoubleNul(_, _)
ScanDoubleNul(mem, a) ==
  IF a >= Len(mem) THEN [Fault |-> TRUE, At |-> a]
  ELSE IF mem[a + 1] # 0 THEN ScanDoubleNul(mem, a + 1)
  ELSE IF a + 1 >= Len(mem) THEN [Fault |-> TRUE, At |-> a + 1]
  ELSE IF mem[a + 2] # 0 THEN ScanDoubleNul(mem, a + 1)
  ELSE [Fault |-> FALSE, At |-> a]

\* A record length that counts one NUL of the pair only.
SmbiosTableLengthOneNul(mem, Raw) ==
  LET scan == ScanDoubleNul(mem, Raw + mem[Raw + 2])
  IN  [Fault |-> scan.Fault, Length |-> scan.At - Raw + 1, LastRead |-> scan.At + 1]

\* SmbiosTableLength(SmbiosTable): the length of the record at offset Raw
\* (Hdr->Length is the byte at offset 1 of the record), and the last offset
\* read to find it.
SmbiosTableLength(mem, Raw) ==
  LET scan == ScanDoubleNul(mem, Raw + mem[Raw + 2])
  IN  [Fault |-> scan.Fault, Length |-> scan.At - Raw + 2,
       LastRead |-> IF scan.Fault THEN scan.At ELSE scan.At + 1]

\* mOvmfDefaultType0.
mOvmfDefaultType0 ==
  <<0, SIZEOF_SMBIOS_TABLE_TYPE0, 0, 0>> \o <<1, 2, 0, 232, 3, 0>>
    \o <<8, 0, 0, 0, 0, 0, 0, 0>> \o <<0, 24>> \o <<0, 0, 255, 255>> \o <<0, 0>>

\* The default record as InstallAllStructures builds it in a zeroed pool of
\* sizeof (mOvmfDefaultType0) + VendLen + VersLen + DateLen + 4 bytes.
DefaultType0 ==
  LET VendStr == STEALTH_BIOS_VENDOR
      VersStr == STEALTH_BIOS_VERSION
      DateStr == STEALTH_BIOS_RELEASE_DATE
      p0 == AllocateZeroPool(SIZEOF_SMBIOS_TABLE_TYPE0 + Len(VendStr) + Len(VersStr)
                               + Len(DateStr) + 4)
      p1 == PoolWrite(p0, 0, mOvmfDefaultType0)
      p2 == PoolWrite(p1, SIZEOF_SMBIOS_TABLE_TYPE0, VendStr \o <<0>>)
      p3 == PoolWrite(p2, SIZEOF_SMBIOS_TABLE_TYPE0 + Len(VendStr) + 1, VersStr \o <<0>>)
  IN  PoolWrite(p3, SIZEOF_SMBIOS_TABLE_TYPE0 + Len(VendStr) + Len(VersStr) + 2,
                DateStr \o <<0>>)

\* A call of Smbios->Add: where the record came from, its start, its kind
\* and the handle asked for.
AddCall(source, start, type, handle) ==
  [Source |-> source, Start |-> start, Type |-> type, Handle |-> handle]

-----------------------------------------------------------------------------
(* Tables a caller may hand to InstallAllStructures *)

BiosRecord == <<0, 4, 1, 0, 0, 0>>
SystemRecord == <<1, 4, 2, 0, 65, 0, 0>>
\* A record whose fixed portion holds a pair of NUL bytes.
WideRecord == <<2, 6, 3, 0, 0, 0, 66, 0, 0>>
\* A record whose length byte is smaller than its header.
ShortLengthRecord == <<3, 1, 0, 0>>
\* A record with two strings.
TwoStringRecord == <<5, 4, 6, 0, 69, 0, 70, 0, 0>>
\* A record whose string area is not terminated.
OpenRecord == <<4, 4, 5, 0, 67, 68>>
EndRecord == <<127, 4, 0, 0, 0, 0>>

TableRecords ==
  {BiosRecord, SystemRecord, WideRecord, ShortLengthRecord, TwoStringRecord,
   OpenRecord, EndRecord}

RECURSIVE Flatten(_)
Flatten(records) ==
  IF Len(records) = 0 THEN <<>> ELSE Head(records) \o Flatten(Tail(records))

CallerTables == {Flatten(r) : r \in SeqsUpTo(TableRecords, MaxRecords)}

\* What may lie in memory after the tables.
BeyondTables == {<<>>, <<0, 0, 127>>, <<9, 0>>}

-----------------------------------------------------------------------------
(* The SMBIOS driver *)

LoaderIdle ==
  /\ script = <<>>
  /\ pc = "idle"
  /\ idx = 1
  /\ status = EFI_SUCCESS
  /\ restricted = <<>>
  /\ tracker = <<>>
  /\ reservations = <<>>
  /\ freeMem = <<>>
  /\ build = "UINT64"
  /\ fwcfg = <<>>
  /\ reserveLog = <<>>
  /\ installed = <<>>

SmbiosInit ==
  /\ LoaderIdle
  /\ TableAddress = NULL
  /\ generated = NULL
  /\ smbiosPc = "entry"
  /\ SmbiosTable = 0
  /\ NeedSmbiosType0 = TRUE
  /\ smbiosStatus = EFI_SUCCESS
  /\ added = <<>>
  /\ maxRead = -1

\* GetQemuSmbiosTables: the tables are the generated ones.
GetQemuSmbiosTables ==
  /\ smbiosPc = "entry"
  /\ \E poolFails \in BOOLEAN, beyond \in BeyondTables :
       LET g == GenerateFakeSmbiosTables(poolFails) IN
       /\ generated' = g
       /\ TableAddress' = IF g = NULL THEN NULL ELSE [Data |-> g.Data, Beyond |-> beyond]
  /\ smbiosPc' = "install"
  /\ UNCHANGED <<SmbiosTable, NeedSmbiosType0, smbiosStatus, added, maxRead>>
  /\ UNCHANGED loaderVars

\* InstallAllStructures is handed tables from another source.
TablesFromCaller ==
  /\ smbiosPc = "entry"
  /\ \E data \in CallerTables, beyond \in BeyondTables :
       TableAddress' = [Data |-> data, Beyond |-> beyond]
  /\ smbiosPc' = "install"
  /\ UNCHANGED <<generated, SmbiosTable, NeedSmbiosType0, smbiosStatus, added, maxRead>>
  /\ UNCHANGED loaderVars

\* InstallAllStructures up to its loop: gBS->LocateProtocol, the NULL test.
InstallEnter ==
  /\ smbiosPc = "install"
  /\ \E located \in BOOLEAN :
       IF ~located
         THEN smbiosStatus' = EFI_NOT_FOUND /\ smbiosPc' = "returned"
       ELSE IF TableAddress = NULL
         THEN smbiosStatus' = EFI_INVALID_PARAMETER /\ smbiosPc' = "returned"
       ELSE smbiosStatus' = smbiosStatus /\ smbiosPc' = "walk"
  /\ SmbiosTable' = 0
  /\ NeedSmbiosType0' = TRUE
  /\ UNCHANGED <<TableAddress, generated, added, maxRead>>
  /\ UNCHANGED loaderVars

\* NeedSmbiosType0 that also forgets a type 0 record met earlier.
NeedSmbiosType0AfterLastOnly(need, type) == type # 0

\* NeedSmbiosType0 after a record of the given type was added.
NeedSmbiosType0After(need, type) == need /\ type # 0

\* One turn of the loop: the record at SmbiosTable.Raw is added and the
\* cursor moves past it.
WalkRecord ==
  /\ smbiosPc = "walk"
  /\ LET mem == Memory(TableAddress)
         Raw == SmbiosTable
     IN  /\ Raw < Len(mem)
         /\ mem[Raw + 1] # 127
         /\ IF Raw + 3 >= Len(mem)
              THEN \* Hdr->Handle, the 16 bits at offset 2 of the record,
                   \* cannot be read: the read faults at its first byte, or
                   \* at its second when only the first is readable
                   /\ smbiosPc' = "fault"
                   /\ maxRead' = Highest(Raw + 2, Len(mem))
                   /\ UNCHANGED <<added, NeedSmbiosType0, SmbiosTable>>
              ELSE LET l == SmbiosTableLength(mem, Raw) IN
                   /\ added' = Append(added, AddCall("table", Raw, mem[Raw + 1],
                                                     <<mem[Raw + 3], mem[Raw + 4]>>))
                   /\ NeedSmbiosType0' = NeedSmbiosType0After(NeedSmbiosType0, mem[Raw + 1])
                   /\ maxRead' = Highest(maxRead, Highest(Raw + 3, l.LastRead))
                   /\ smbiosPc' = IF l.Fault THEN "fault" ELSE "walk"
                   /\ SmbiosTable' = IF l.Fault THEN SmbiosTable ELSE Raw + l.Length
  /\ UNCHANGED <<TableAddress, generated, smbiosStatus>>
  /\ UNCHANGED loaderVars

\* The loop reads the type byte of a record that cannot be read.
WalkFault ==
  /\ smbiosPc = "walk"
  /\ SmbiosTable >= Len(Memory(TableAddress))
  /\ smbiosPc' = "fault"
  /\ maxRead' = Highest(maxRead, SmbiosTable)
  /\ UNCHANGED <<TableAddress, generated, SmbiosTable, NeedSmbiosType0, smbiosStatus, added>>
  /\ UNCHANGED loaderVars

\* The loop meets a record of type 127 and ends.
WalkEndMarker ==
  /\ smbiosPc = "walk"
  /\ SmbiosTable < Len(Memory(TableAddress))
  /\ Memory(TableAddress)[SmbiosTable + 1] = 127
  /\ maxRead' = Highest(maxRead, SmbiosTable)
  /\ IF NeedSmbiosType0
       THEN smbiosPc' = "type0" /\ smbiosStatus' = smbiosStatus
       ELSE smbiosPc' = "returned" /\ smbiosStatus' = EFI_SUCCESS
  /\ UNCHANGED <<TableAddress, generated, SmbiosTable, NeedSmbiosType0, added>>
  /\ UNCHANGED loaderVars

\* No record of type 0 was met: the default one is built and added.
InstallDefaultType0 ==
  /\ smbiosPc = "type0"
  /\ \E poolFails \in BOOLEAN :
       IF poolFails
         THEN smbiosStatus' = EFI_OUT_OF_RESOURCES /\ added' = added
         ELSE /\ smbiosStatus' = EFI_SUCCESS
              /\ added' = Append(added, AddCall("default", 0, DefaultType0.Data[1],
                                                SMBIOS_HANDLE_PI_RESERVED))
  /\ smbiosPc' = "returned"
  /\ UNCHANGED <<TableAddress, generated, SmbiosTable, NeedSmbiosType0, maxRead>>
  /\ UNCHANGED loaderVars

SmbiosNext ==
  \/ GetQemuSmbiosTables
  \/ TablesFromCaller
  \/ InstallEnter
  \/ WalkRecord
  \/ WalkFault
  \/ WalkEndMarker
  \/ InstallDefaultType0

SmbiosSpec == SmbiosInit /\ [][SmbiosNext]_vars

-----------------------------------------------------------------------------
(* The framing of a table, read off the bytes *)

\* The offsets e at or after the fixed portion of the record at s where a
\* pair of NUL bytes lies inside the table.
DoubleNulsAfter(data, s) ==
  {e \in (s + data[s + 2]) .. (Len(data) - 2) : data[e + 1] = 0 /\ data[e + 2] = 0}

Least(S) == CHOOSE x \in S : \A y \in S : x <= y

\* The records of the table from offset s on: their starts, and whether an
\* end marker closes them inside the table.
RECURSIVE Framing(_, _)
Framing(data, s) ==
  IF s >= Len(data) THEN [Starts |-> <<>>, Ended |-> FALSE, End |-> s]
  ELSE IF data[s + 1] = 127 THEN [Starts |-> <<>>, Ended |-> TRUE, End |-> s]
  ELSE IF s + 3 >= Len(data) \/ DoubleNulsAfter(data, s) = {}
    THEN [Starts |-> <<s>>, Ended |-> FALSE, End |-> s]
  ELSE LET r == Framing(data, Least(DoubleNulsAfter(data, s)) + 2)
       IN  [r EXCEPT !.Starts = <<s>> \o r.Starts]

\* The calls of Smbios->Add for records of the table.
RECURSIVE FromTable(_)
FromTable(calls) ==
  IF calls = <<>> THEN <<>>
  ELSE IF Head(calls).Source = "table" THEN <<Head(calls)>> \o FromTable(Tail(calls))
  ELSE FromTable(Tail(calls))

\* The walk over the table has run to its end.
WalkCompleted ==
  \/ smbiosPc = "type0"
  \/ smbiosPc = "returned" /\ smbiosStatus \in {EFI_SUCCESS, EFI_OUT_OF_RESOURCES}

(* C11: for a table whose records end with an end marker, the walk adds the *)
(* records before the first end marker once each and in table order, never  *)
(* adds the end marker, and each next record starts where the current one   *)
(* starts plus its fixed length plus its string area up to and including    *)
(* the first pair of NUL bytes at or after the end of the fixed portion.    *)
C11_WalkFollowsFraming ==
  (TableAddress # NULL /\ Framing(TableAddress.Data, 0).Ended) =>
    LET data == TableAddress.Data
        f == Framing(data, 0)
        calls == FromTable(added)
        cursor(n) == IF n < Len(f.Starts) THEN f.Starts[n + 1] ELSE f.End
    IN  /\ smbiosPc # "fault"
        /\ Len(calls) <= Len(f.Starts)
        /\ \A i \in 1 .. Len(calls) :
             /\ calls[i].Start = f.Starts[i]
             /\ calls[i].Type = data[f.Starts[i] + 1]
             /\ calls[i].Type # 127
             /\ cursor(i) = calls[i].Start + data[calls[i].Start + 2]
                              + (Least(DoubleNulsAfter(data, calls[i].Start))
                                   - (calls[i].Start + data[calls[i].Start + 2]) + 2)
        /\ \A i, j \in 1 .. Len(calls) : i < j => calls[i].Start < calls[j].Start
        /\ smbiosPc = "walk" => SmbiosTable = cursor(Len(calls))
        /\ WalkCompleted => Len(calls) = Len(f.Starts)

\* The walk has run to the end marker of a table of three records, one of
\* them with a pair of NUL bytes in its fixed portion and one with strings.
C11_Witness ==
  /\ smbiosPc = "returned" /\ smbiosStatus = EFI_SUCCESS
  /\ TableAddress # NULL /\ generated = NULL
  /\ Framing(TableAddress.Data, 0).Ended
  /\ Len(FromTable(added)) = 2
  /\ \E i, j \in 1 .. Len(added) : added[i].Type = 2 /\ added[j].Type = 5

(* C12: for every table, also one without an end marker or without a pair  *)
(* of NUL bytes, the walk ends when the table is exhausted and reads no     *)
(* byte at or beyond the end of the table.                                  *)
C12_WalkStaysInsideTable ==
  (TableAddress # NULL /\ smbiosPc \in {"walk", "fault", "type0", "returned"}) =>
    /\ smbiosPc # "fault"
    /\ maxRead < Len(TableAddress.Data)

\* The calls of Smbios->Add for the default record.
RECURSIVE Defaults(_)
Defaults(calls) ==
  IF calls = <<>> THEN <<>>
  ELSE IF Head(calls).Source = "default" THEN <<Head(calls)>> \o Defaults(Tail(calls))
  ELSE Defaults(Tail(calls))

\* A record of type 0 of the table was added.
Type0FromTable == \E i \in 1 .. Len(added) : added[i].Source = "table" /\ added[i].Type = 0

\* InstallAllStructures has returned after walking a table to its end marker.
ReturnedAfterWalk ==
  /\ smbiosPc = "returned"
  /\ TableAddress # NULL
  /\ smbiosStatus \in {EFI_SUCCESS, EFI_OUT_OF_RESOURCES}

\* The claim as stated: once the walk has reached the end marker the default
\* record is added if and only if no type 0 record of the table was, and
\* InstallAllStructures returns success.
C13_DefaultIffNoType0 ==
  ReturnedAfterWalk =>
    /\ (Len(Defaults(added)) = 1) <=> ~Type0FromTable
    /\ smbiosStatus = EFI_SUCCESS

(* C13: once the walk has reached the end marker, one default type 0 record *)
(* is added, after all records of the table, if and only if no type 0       *)
(* record of the table was added and the pool allocation for the default    *)
(* record succeeds; InstallAllStructures then returns success. With a       *)
(* type 0 record in the table nothing is built and success is returned;     *)
(* when the allocation fails nothing is added and EFI_OUT_OF_RESOURCES is   *)
(* returned.                                                                *)
C13_DefaultIffNoType0AndPool ==
  /\ smbiosPc # "returned" => Defaults(added) = <<>>
  /\ ReturnedAfterWalk =>
       /\ Len(Defaults(added)) <= 1
       /\ (Len(Defaults(added)) = 1) <=> (~Type0FromTable /\ smbiosStatus = EFI_SUCCESS)
       /\ Len(Defaults(added)) = 1 =>
            /\ added[Len(added)].Source = "default"
            /\ added[Len(added)].Type = 0
            /\ added[Len(added)].Handle = SMBIOS_HANDLE_PI_RESERVED
       /\ Type0FromTable => smbiosStatus = EFI_SUCCESS
       /\ smbiosStatus = EFI_OUT_OF_RESOURCES => ~Type0FromTable

\* The default record was added after two records of a table without a
\* type 0 record.
C13_Witness ==
  /\ ReturnedAfterWalk
  /\ smbiosStatus = EFI_SUCCESS
  /\ Len(added) = 3
  /\ added[3].Source = "default"
  /\ ~Type0FromTable

-----------------------------------------------------------------------------
(* C14: an Allocate command that returns an error, whatever the error (name *)
(* not terminated, alignment above one page, file not found, failure of the *)
(* page reservation, of the pool allocation or of the insertion into the    *)
(* directory), leaves the directory and the reserved pages exactly as they  *)
(* were; the pages it reserved are freed with the same base and count.      *)
C14_AllocateFailureIsAtomic ==
  [][ (AboutToProcess /\ IsAllocate(idx) /\ EFI_ERROR(status'))
      => /\ tracker' = tracker
         /\ reservations' = reservations
         /\ Occupied(reservations') = Occupied(reservations)
         /\ fwcfg' = fwcfg
         /\ Len(reserveLog') <= 2
         /\ \A k \in 1 .. Len(reserveLog') :
              /\ reserveLog'[k].Op = "FreePages" =>
                   /\ k = 2
                   /\ reserveLog'[1].Op = "AllocatePages"
                   /\ reserveLog'[1].Status = EFI_SUCCESS
              /\ (reserveLog'[k].Op = "AllocatePages" /\ reserveLog'[k].Status = EFI_SUCCESS)
                   => /\ k < Len(reserveLog')
                      /\ reserveLog'[k + 1].Op = "FreePages"
                      /\ reserveLog'[k + 1].Base = reserveLog'[k].Base
                      /\ reserveLog'[k + 1].Pages = reserveLog'[k].Pages
    ]_vars

\* An Allocate of a new name reserved two pages next to an earlier blob, ran
\* out of pool memory and gave the two pages back.
C14_Witness ==
  /\ JustFailed /\ IsAllocate(idx) /\ status = EFI_OUT_OF_RESOURCES
  /\ Len(tracker) >= 1
  /\ TrackerFind(tracker, script[idx].File) = {}
  /\ Len(reserveLog) = 2
  /\ reserveLog[1].Op = "AllocatePages" /\ reserveLog[1].Pages = 2
  /\ reserveLog[2] = LogFree(reserveLog[1].Base, 2)
  /\ Occupied(reservations) # {}

-----------------------------------------------------------------------------
\* The file served for the blob of the Allocate that has just succeeded, and
\* the pages of that blob.
AllocatedSource == fwcfg[AsciiStr(script[idx - 1].File)]
AllocatedBlob == BlobOf(tracker, script[idx - 1].File)
AllocatedPages == reservations[AllocatedBlob.Base]

(* C15: a blob of fewer than 36 bytes is the file byte for byte; in a blob  *)
(* of 36 bytes or more only the checksum byte at offset 9 and the fields at *)
(* offsets 10 to 31 can differ from the file: signature (0..3), length      *)
(* (4..7), revision (8), creator revision (32..35), the bytes from 36 on    *)
(* and the zero tail are unchanged; the OEM id, the OEM revision and the   *)
(* creator id are rewritten in every such blob, an ACPI table or not.       *)
C15_HeaderRewriteFrame ==
  (JustSucceeded /\ IsAllocate(idx - 1))
    => LET src == AllocatedSource
           Size == AllocatedBlob.Size
           mem == AllocatedPages
       IN  /\ MemLength(src) = Size
           /\ RangeIs(mem, Size, MemLength(mem) - Size, 0)
           /\ Size < AcpiHeaderSize => Take(mem, Size) = src
           /\ Size >= AcpiHeaderSize =>
                /\ Slice(mem, 0, 4) = Slice(src, 0, 4)
                /\ Slice(mem, 4, 4) = Slice(src, 4, 4)
                /\ Slice(mem, 8, 1) = Slice(src, 8, 1)
                /\ Slice(mem, 32, 4) = Slice(src, 32, 4)
                /\ Drop(Take(mem, Size), AcpiHeaderSize) = Drop(src, AcpiHeaderSize)
                /\ ReadField(mem, 10, 6) = STEALTH_ACPI_OEM_ID
                /\ ReadField(mem, 24, 4) = STEALTH_ACPI_OEM_REVISION
                /\ ReadField(mem, 28, 4) = STEALTH_ACPI_CREATOR_ID

(* C16: after a successful Allocate of a blob of 36 bytes or more whose     *)
(* header length field L satisfies 10 <= L <= blob size, the bytes of the   *)
(* blob at [0, L) sum to 0 modulo 256, whatever the file held, its former   *)
(* checksum byte included. L is the length field of the file.               *)
C16_HeaderChecksumZero ==
  (/\ JustSucceeded /\ IsAllocate(idx - 1)
   /\ AllocatedBlob.Size >= AcpiHeaderSize
   /\ HeaderLengthInside(AllocatedSource)
   /\ 10 <= HeaderLength(AllocatedSource))
    => CalculateSum8(AllocatedPages, 0, HeaderLength(AllocatedSource)) = 0

(* C17: every byte read or written by a successful Allocate lies inside the *)
(* pages reserved for the blob: the file read and the zero fill end at the  *)
(* end of the pages, and the range [0, Header->Length) the checksum is      *)
(* computed over ends at or before it.                                      *)
C17_AllocateStaysInsidePages ==
  (JustSucceeded /\ IsAllocate(idx - 1))
    => /\ AllocatedBlob.Size <= MemLength(AllocatedPages)
       /\ MemLength(AllocatedPages) = EFI_PAGES_TO_SIZE(EFI_SIZE_TO_PAGES(AllocatedBlob.Size))
       /\ AllocatedBlob.Size >= AcpiHeaderSize => HeaderLengthInside(AllocatedPages)

-----------------------------------------------------------------------------
(* C18: the buffer GetQemuSmbiosTables builds is filled exactly to          *)
(* TotalSize (the cursor ends at TotalSize, nothing is written beyond it),  *)
(* and the walk over it adds exactly two records, type 0 then type 1, each  *)
(* ending at its own pair of NUL bytes, reaches the type 127 record without *)
(* reading beyond the buffer and builds no default record.                  *)
C18_GeneratedTablesWalk ==
  generated # NULL =>
    LET data == generated.Data
        f == Framing(data, 0)
        start1 == SIZEOF_SMBIOS_TABLE_TYPE0 + SumLen(Type0Strings) + 1
        start127 == start1 + SIZEOF_SMBIOS_TABLE_TYPE1 + SumLen(Type1Strings) + 1
    IN  /\ generated.CurrentPtr = generated.TotalSize
        /\ Len(data) = generated.TotalSize
        /\ ~generated.Overrun
        /\ TableAddress # NULL /\ TableAddress.Data = data
        /\ f.Ended /\ f.Starts = <<0, start1>> /\ f.End = start127
        /\ data[1] = 0 /\ data[start1 + 1] = 1 /\ data[start127 + 1] = 127
        /\ start127 + SIZEOF_SMBIOS_STRUCTURE + 2 = generated.TotalSize
        /\ smbiosPc \notin {"fault", "type0"}
        /\ maxRead < generated.TotalSize
        /\ Defaults(added) = <<>>
        /\ Len(added) <= 2
        /\ \A i \in 1 .. Len(added) :
             added[i] = AddCall("table", f.Starts[i], i - 1,
                                <<data[f.Starts[i] + 3], data[f.Starts[i] + 4]>>)
        /\ smbiosPc = "walk" =>
             SmbiosTable = (IF Len(added) = 0 THEN 0
                            ELSE IF Len(added) = 1 THEN start1 ELSE start127)
        /\ (smbiosPc = "returned" /\ smbiosStatus # EFI_NOT_FOUND) =>
             /\ smbiosStatus = EFI_SUCCESS
             /\ Len(added) = 2
             /\ maxRead = start127

\* The generated tables were walked to their end marker and two records
\* were added.
C18_Witness ==
  /\ generated # NULL
  /\ smbiosPc = "returned" /\ smbiosStatus = EFI_SUCCESS
  /\ Len(added) = 2
  /\ added[1].Type = 0 /\ added[2].Type = 1 /\ added[2].Start > 0

====
